---------------------------- MODULE Spec2Model ----------------------------
(***************************************************************************)
(* Request handling of the happy-thoughts backend (src/server.js, the      *)
(* revision of lines 1-356) over its two MongoDB collections.              *)
(*                                                                         *)
(* State: the users collection, the thoughts collection (in natural        *)
(* order, which findOne().skip(n) reads) and, per request slot, the        *)
(* position (pc) and the local variables of the handler serving it.  A     *)
(* handler is cut into one action per awaited store operation: the         *)
(* operation completes and the continuation runs to the next await or to   *)
(* the response.  Requests of different slots interleave freely between    *)
(* these steps, as on the Node event loop.  resp is the response sent by   *)
(* the step just taken (NoResp when the step sent none).                   *)
(*                                                                         *)
(* The route POST /thoughts/:id/likes and the likedBy bookkeeping have no  *)
(* handler in src/server.js; LikeAuth, LikeFind and LikeSave model them    *)
(* from spec.md sections 4.2 and 5.                                        *)
(***************************************************************************)
EXTENDS Integers, FiniteSets, Sequences, Bags, TLC

\* Number of requests that may be in flight at the same time.
MaxReq == 2

\* models/HappyThoughts.js: minlength / maxlength of message.
MinLength == 5
MaxLength == 140

Slots == 1 .. MaxReq

\* ----------------------------------------------------------------- values

\* A message is modelled by its length; MsgAbsent is a body without message.
MsgAbsent == -1
Messages == {MsgAbsent, 0, MinLength - 1, MinLength, MaxLength + 1}

\* !message in JavaScript: undefined or the empty string.
Falsy(message) == message = MsgAbsent \/ message = 0

\* "" is an absent (or empty) string field of a request body or a document.
NoStr == ""
Usernames == {"alice", "bob", "ada", "eve"}
Passwords == {"pw1", "pw2"}
Salts == {"s1", "s2"}

\* Token(n) is the n-th value crypto.randomBytes(128).toString('hex') hands
\* out as an accessToken.  Authorization header values: NoToken is an absent
\* header; a Token(n) not handed out yet matches no user.
Token(n) == <<"tok", n>>
NoToken == <<"none", 0>>
Tokens == {NoToken, Token(1), Token(2), Token(3)}

\* bcrypt.hashSync(password, salt): an opaque value that fixes the salt and
\* the password; compareSync re-hashes with the salt held in the hash.
hashSync(password, salt) == <<"bcrypt", salt, password>>
compareSyncAcceptsAll(password, hash) == TRUE
compareSync(password, hash) == hashSync(password, hash[2]) = hash

NoUser == [id |-> 0, username |-> NoStr, password |-> <<"bcrypt", NoStr, NoStr>>,
           accessToken |-> NoToken]

\* Thought ids used as :id.  BadId is a string that is no ObjectId (findById
\* throws a CastError), MissingId a well-formed id of no document.
BadId == -1
MissingId == 9
ThoughtIds == {1, 2, MissingId, BadId}
NoThought == [id |-> 0, message |-> MsgAbsent, hearts |-> 0, username |-> NoStr,
              userId |-> 0, likedBy |-> EmptyBag]

VARIABLES users, thoughts, req, resp, created, issued

vars == <<users, thoughts, req, resp, created, issued>>

\* History, not program state: created[u] counts the 201 answers of
\* POST /register for username u, and issued[u] holds what the first of them
\* returned together with the password it was sent.
NotIssued == [id |-> 0, password |-> NoStr, accessToken |-> NoToken]

\* ------------------------------------------------------------ collections

\* User.findOne({ accessToken }) / User.findOne({ username }).
FindUserBy(field, value) ==
  IF \E u \in users : u[field] = value
  THEN CHOOSE u \in users : u[field] = value
  ELSE NoUser

\* Insert rejected by the unique index on username (error code 11000).
DuplicateKeyNoIndex(username) == FALSE
DuplicateKey(username) == \E u \in users : u.username = username

\* new User({ username, password: hash }): _id and accessToken are generated.
NewUser(username, password, salt) ==
  [id |-> Cardinality(users) + 1,
   username |-> username,
   password |-> hashSync(password, salt),
   accessToken |-> Token(Cardinality(users) + 1)]

HasThought(id) == \E i \in DOMAIN thoughts : thoughts[i].id = id
IndexOf(id) == CHOOSE i \in DOMAIN thoughts : thoughts[i].id = id
\* HappyThoughts.findById(id)
findById(id) == IF HasThought(id) THEN thoughts[IndexOf(id)] ELSE NoThought
\* The collection after findByIdAndDelete(id).
Without(id) == SelectSeq(thoughts, LAMBDA t : t.id # id)
NextThoughtId == Len(thoughts) + 3

\* The part of a document read by findById that a continuation reads again:
\* hearts and likedBy of the copy are dropped.
Doc(thought) == [thought EXCEPT !.hearts = 0, !.likedBy = EmptyBag]

\* if (!user) return res.status(401)
AuthenticatedAlways(user) == TRUE
Authenticated(user) == user # NoUser

\* Document validation of happyThoughtsSchema on save(): message and
\* username are required (a required String rejects undefined and "").
ValidateThought(doc) == ~Falsy(doc.message) /\ doc.username # NoStr

\* thought.user: happyThoughtsSchema has the path userId and no path user,
\* so the property is undefined (0) on every document.
ThoughtUser(thought) == 0
\* thought.user && thought.user.toString() !== user._id.toString()
NotOwner(thought, userId) == ThoughtUser(thought) # 0 /\ ThoughtUser(thought) # userId

\* ---------------------------------------------------------------- requests

\* A slot: the handler's position and its local variables (user: req.user /
\* user._id, 0 when none; known: the Authorization value matched a stored
\* user when it was looked up; tid: the :id parameter, or the skip offset of
\* GET /thoughts/random; snap: the thought read by findById).
Idle == [pc |-> "idle", user |-> 0, known |-> FALSE, tid |-> 0, msg |-> MsgAbsent,
         snap |-> NoThought, uname |-> NoStr, pw |-> NoStr]

\* A response: route and status, and what the record of the exchange holds
\* where it matters (known, user: as in the slot; owner: userId of the
\* thought addressed; msg, uname, pw: the body sent; token: accessToken
\* returned; body: id of the thought found or returned, 0 for none; n: a
\* count; wrote: the step changed a collection; failed: a store operation
\* rejected).
NoResp == [route |-> "", status |-> 0, known |-> FALSE, user |-> 0, owner |-> 0,
           msg |-> MsgAbsent, uname |-> NoStr, pw |-> NoStr, token |-> NoToken,
           body |-> 0, n |-> 0, wrote |-> FALSE, flag |-> FALSE, failed |-> FALSE]

Free(s) == req[s].pc = "idle"
\* An arriving request takes the lowest free slot.
Arrives(s) == Free(s) /\ \A t \in Slots : t < s => ~Free(t)

Answer(route, status, r) ==
  [NoResp EXCEPT !.route = route, !.status = status, !.known = r.known]

\* The step of slot s sends response a (the slot is free again) or moves the
\* handler on to r.
Step(s, a, r) ==
  /\ resp' = a
  /\ req' = [req EXCEPT ![s] = IF a = NoResp THEN r ELSE Idle]

Lookup(tok) ==
  LET user == FindUserBy("accessToken", tok) IN
  [Idle EXCEPT !.user = user.id, !.known = user # NoUser]

\* --------------------------------------------------------- POST /register

RegisterCheck(s) ==
  /\ Arrives(s)
  /\ \E username \in Usernames \cup {NoStr}, password \in Passwords \cup {NoStr} :
       LET r == [Idle EXCEPT !.pc = "register_save", !.uname = username, !.pw = password]
           a == [NoResp EXCEPT !.route = "register", !.status = 400,
                               !.uname = username, !.pw = password] IN
       IF username = NoStr \/ password = NoStr THEN Step(s, a, r)
       ELSE IF FindUserBy("username", username) # NoUser THEN Step(s, a, r)
       ELSE Step(s, NoResp, r)
  /\ UNCHANGED <<users, thoughts, created, issued>>

RegisterSave(s) ==
  /\ req[s].pc = "register_save"
  /\ \E salt \in Salts :
       LET r == req[s]
           user == NewUser(r.uname, r.pw, salt)
           a == [NoResp EXCEPT !.route = "register", !.uname = r.uname, !.pw = r.pw] IN
       IF DuplicateKey(r.uname)
       THEN /\ Step(s, [a EXCEPT !.status = 400, !.flag = TRUE], r)
            /\ UNCHANGED <<users, created, issued>>
       ELSE /\ users' = users \cup {user}
            /\ Step(s, [a EXCEPT !.status = 201, !.user = user.id,
                                 !.token = user.accessToken, !.wrote = TRUE], r)
            /\ created' = [created EXCEPT ![r.uname] = @ + 1]
            /\ issued' = IF issued[r.uname] = NotIssued
                         THEN [issued EXCEPT ![r.uname] =
                                 [id |-> user.id, password |-> r.pw,
                                  accessToken |-> user.accessToken]]
                         ELSE issued
  /\ UNCHANGED thoughts

\* ------------------------------------------------------------ POST /login

Login(s) ==
  /\ Arrives(s)
  /\ \E username \in Usernames \cup {NoStr}, password \in Passwords \cup {NoStr} :
       LET user == FindUserBy("username", username)
           a == [NoResp EXCEPT !.route = "login", !.uname = username, !.pw = password] IN
       IF username = NoStr \/ password = NoStr
       THEN Step(s, [a EXCEPT !.status = 400], Idle)
       ELSE IF user = NoUser \/ ~compareSync(password, user.password)
       THEN Step(s, [a EXCEPT !.status = 401], Idle)
       ELSE Step(s, [a EXCEPT !.status = 200, !.user = user.id,
                              !.token = user.accessToken], Idle)
  /\ UNCHANGED <<users, thoughts, created, issued>>

\* ----------------------------------------------------------- GET /secrets

\* authenticateUser, then the handler.
Secrets(s) ==
  /\ Arrives(s)
  /\ \E tok \in Tokens :
       LET r == Lookup(tok) IN
       IF Authenticated(FindUserBy("accessToken", tok))
       THEN Step(s, Answer("secrets", 200, r), r)
       ELSE Step(s, Answer("secrets", 401, r), r)
  /\ UNCHANGED <<users, thoughts, created, issued>>

\* ----------------------------------------------------- GET /thoughts/likes

\* The handler reads no header; whether the request's Authorization value
\* matches a user is kept for the record of the response only.
ListLikes(s) ==
  /\ Arrives(s)
  /\ \E tok \in Tokens :
       LET r == Lookup(tok)
           sortedThoughts == thoughts IN
       Step(s, [Answer("likes", IF Len(sortedThoughts) > 0 THEN 200 ELSE 404, r)
                  EXCEPT !.n = Len(sortedThoughts)], r)
  /\ UNCHANGED <<users, thoughts, created, issued>>

\* ---------------------------------------------------- GET /thoughts/random

RandomCount(s) ==
  /\ Arrives(s)
  /\ LET count == Len(thoughts) IN
     IF count = 0
     THEN Step(s, [Answer("random", 404, Idle) EXCEPT !.n = count], Idle)
     ELSE \E random \in 0 .. count - 1 :
            Step(s, NoResp, [Idle EXCEPT !.pc = "random_fetch", !.tid = random])
  /\ UNCHANGED <<users, thoughts, created, issued>>

\* HappyThoughts.findOne().skip(random), then res.json(randomThought).
RandomFetch(s) ==
  /\ req[s].pc = "random_fetch"
  /\ LET r == req[s]
         randomThought == IF r.tid < Len(thoughts) THEN thoughts[r.tid + 1] ELSE NoThought IN
     Step(s, [Answer("random", 200, r) EXCEPT !.body = randomThought.id], r)
  /\ UNCHANGED <<users, thoughts, created, issued>>

\* --------------------------------------------------------- POST /thoughts

CreateAuth(s) ==
  /\ Arrives(s)
  /\ \E tok \in Tokens, message \in Messages :
       LET r == [Lookup(tok) EXCEPT !.pc = "create_save", !.msg = message]
           a(status) == [Answer("create", status, r) EXCEPT !.msg = message] IN
       IF ~Authenticated(FindUserBy("accessToken", tok))
       THEN Step(s, Answer("create", 401, r), r)
       ELSE IF Falsy(message) THEN Step(s, a(400), r)
       ELSE Step(s, NoResp, r)
  /\ UNCHANGED <<users, thoughts, created, issued>>

\* new HappyThoughts({ message, hearts: 0, createdAt }).save()
CreateSave(s) ==
  /\ req[s].pc = "create_save"
  /\ LET r == req[s]
         newThought == [NoThought EXCEPT !.id = NextThoughtId, !.message = r.msg]
         a(status) == [Answer("create", status, r) EXCEPT !.msg = r.msg, !.user = r.user] IN
     IF ValidateThought(newThought)
     THEN /\ thoughts' = Append(thoughts, newThought)
          /\ Step(s, [a(201) EXCEPT !.body = newThought.id, !.owner = newThought.userId,
                                    !.uname = newThought.username,
                                    !.n = newThought.hearts, !.wrote = TRUE], r)
     ELSE /\ Step(s, a(500), r)
          /\ UNCHANGED thoughts
  /\ UNCHANGED <<users, created, issued>>

\* ---------------------------------------------------- DELETE /thoughts/:id

DeleteAuth(s) ==
  /\ Arrives(s)
  /\ \E tok \in Tokens :
       LET r == [Lookup(tok) EXCEPT !.pc = "delete_find"] IN
       IF ~Authenticated(FindUserBy("accessToken", tok))
       THEN Step(s, Answer("delete", 401, r), r)
       ELSE Step(s, NoResp, r)
  /\ UNCHANGED <<users, thoughts, created, issued>>

DeleteFind(s) ==
  /\ req[s].pc = "delete_find"
  /\ \E id \in ThoughtIds :
       LET thought == findById(id)
           r == [req[s] EXCEPT !.pc = "delete_exec", !.tid = id, !.snap = Doc(thought)]
           \* user is not read after the ownership check, nor the message
           next == [r EXCEPT !.user = 0, !.snap.message = MsgAbsent]
           a(status) == [Answer("delete", status, r) EXCEPT !.body = thought.id] IN
       IF id = BadId THEN Step(s, a(400), r)
       ELSE IF thought = NoThought THEN Step(s, a(404), r)
       ELSE IF NotOwner(thought, r.user)
       THEN Step(s, [a(403) EXCEPT !.user = r.user, !.owner = thought.userId], r)
       ELSE Step(s, NoResp, next)
  /\ UNCHANGED <<users, thoughts, created, issued>>

\* HappyThoughts.findByIdAndDelete(id), then 200 with the thought read before.
DeleteExec(s) ==
  /\ req[s].pc = "delete_exec"
  /\ thoughts' = Without(req[s].tid)
  /\ LET r == req[s] IN
     Step(s, [Answer("delete", 200, r) EXCEPT !.owner = r.snap.userId, !.body = r.snap.id,
                                              !.wrote = thoughts' # thoughts], r)
  /\ UNCHANGED <<users, created, issued>>

\* ------------------------------------------------------- PUT /thoughts/:id

UpdateAuth(s) ==
  /\ Arrives(s)
  /\ \E tok \in Tokens :
       LET r == [Lookup(tok) EXCEPT !.pc = "update_find"] IN
       IF ~Authenticated(FindUserBy("accessToken", tok))
       THEN Step(s, Answer("update", 401, r), r)
       ELSE Step(s, NoResp, r)
  /\ UNCHANGED <<users, thoughts, created, issued>>

UpdateFind(s) ==
  /\ req[s].pc = "update_find"
  /\ \E id \in ThoughtIds, message \in Messages :
       LET found == findById(id)
           \* thought.message = message (line 253) precedes the await of save()
           thought == [Doc(found) EXCEPT !.message = message]
           r == [req[s] EXCEPT !.pc = "update_save", !.tid = id, !.snap = thought]
           \* user is not read after the ownership check
           next == [r EXCEPT !.user = 0]
           a(status) == [Answer("update", status, r) EXCEPT !.body = found.id] IN
       IF id = BadId THEN Step(s, a(400), r)
       ELSE IF found = NoThought THEN Step(s, a(404), r)
       ELSE IF NotOwner(found, r.user)
       THEN Step(s, [a(403) EXCEPT !.user = r.user, !.owner = found.userId], r)
       ELSE IF Falsy(message)
       THEN Step(s, [a(400) EXCEPT !.msg = message, !.owner = found.userId], r)
       ELSE Step(s, NoResp, next)
  /\ UNCHANGED <<users, thoughts, created, issued>>

\* await thought.save(): the document is validated, then the changed path is
\* written to the stored document; a failed validation or a document deleted
\* meanwhile rejects (caught: 400).
UpdateSave(s) ==
  /\ req[s].pc = "update_save"
  /\ LET r == req[s]
         thought == r.snap
         a(status) == [Answer("update", status, r) EXCEPT !.owner = thought.userId,
                         !.msg = thought.message, !.body = thought.id] IN
     IF ValidateThought(thought) /\ HasThought(r.tid)
     THEN /\ thoughts' = [thoughts EXCEPT ![IndexOf(r.tid)].message = thought.message]
          /\ Step(s, [a(200) EXCEPT !.wrote = thoughts' # thoughts], r)
     ELSE /\ Step(s, a(400), r)
          /\ UNCHANGED thoughts
  /\ UNCHANGED <<users, created, issued>>

\* ----------------------------------------------- POST /thoughts/:id/likes

\* The caller's identity is a member of likedBy.
AlreadyLikedNever(thought, userId) == FALSE
AlreadyLiked(thought, userId) == BagIn(userId, thought.likedBy)

LikeAuth(s) ==
  /\ Arrives(s)
  /\ \E tok \in Tokens :
       LET r == [Lookup(tok) EXCEPT !.pc = "like_find"] IN
       IF ~Authenticated(FindUserBy("accessToken", tok))
       THEN Step(s, Answer("like", 401, r), r)
       ELSE Step(s, NoResp, r)
  /\ UNCHANGED <<users, thoughts, created, issued>>

\* Read the thought; a caller already in likedBy gets the current state.
LikeFind(s) ==
  /\ req[s].pc = "like_find"
  /\ \E id \in ThoughtIds :
       LET thought == findById(id)
           r == [req[s] EXCEPT !.pc = "like_save", !.tid = id]
           a(status) == [Answer("like", status, r) EXCEPT !.body = thought.id,
                           !.flag = BagIn(r.user, thought.likedBy)] IN
       IF id = BadId THEN Step(s, a(400), r)
       ELSE IF thought = NoThought THEN Step(s, a(404), r)
       ELSE IF AlreadyLiked(thought, r.user) THEN Step(s, a(200), r)
       ELSE Step(s, NoResp, r)
  /\ UNCHANGED <<users, thoughts, created, issued>>

\* Add the caller to likedBy and increment hearts by one, then persist.
LikeSave(s) ==
  /\ req[s].pc = "like_save"
  /\ LET r == req[s] IN
     IF HasThought(r.tid)
     THEN LET stored == thoughts[IndexOf(r.tid)]
              liked == [stored EXCEPT !.likedBy = @ (+) SetToBag({r.user}),
                                      !.hearts = @ + 1] IN
          /\ thoughts' = [thoughts EXCEPT ![IndexOf(r.tid)] = liked]
          /\ Step(s, [Answer("like", 200, r) EXCEPT !.body = liked.id,
                        !.flag = BagIn(r.user, stored.likedBy), !.wrote = TRUE], r)
     ELSE /\ Step(s, Answer("like", 404, r), r)
          /\ UNCHANGED thoughts
  /\ UNCHANGED <<users, created, issued>>

\* ------------------------------------------------- rejected store operations

\* The status sent by the catch block of each handler.
CaughtRoutes == {"likes", "random", "create", "delete", "update", "login", "register"}
CatchStatus(route) == IF route \in {"create", "login"} THEN 500 ELSE 400
RouteOf(pc) ==
  CASE pc = "random_fetch" -> "random"
    [] pc = "create_save" -> "create"
    [] pc \in {"delete_find", "delete_exec"} -> "delete"
    [] pc \in {"update_find", "update_save"} -> "update"
    [] pc = "register_save" -> "register"
    [] OTHER -> "like"

\* The first awaited store operation of a handler with try/catch rejects.
FailsFirst(s) ==
  /\ Arrives(s)
  /\ \E route \in CaughtRoutes :
       Step(s, [NoResp EXCEPT !.route = route, !.status = CatchStatus(route),
                              !.failed = TRUE], Idle)
  /\ UNCHANGED <<users, thoughts, created, issued>>

\* A later awaited store operation of a handler with try/catch rejects.
FailsLater(s) ==
  /\ req[s].pc \notin {"idle", "unhandled"}
  /\ LET route == RouteOf(req[s].pc) IN
     Step(s, [Answer(route, CatchStatus(route), req[s]) EXCEPT !.failed = TRUE], Idle)
  /\ UNCHANGED <<users, thoughts, created, issued>>

\* User.findOne rejects inside authenticateUser, which has no try/catch: the
\* async middleware's promise rejects, next() is not called and nothing is
\* sent; the request stays open.
SecretsFails(s) ==
  /\ Arrives(s)
  /\ resp' = NoResp
  /\ req' = [req EXCEPT ![s] = [Idle EXCEPT !.pc = "unhandled"]]
  /\ UNCHANGED <<users, thoughts, created, issued>>

\* -------------------------------------------------------------------- init

\* Users registered before the server starts.
Alice == [id |-> 1, username |-> "alice", password |-> hashSync("pw1", "s1"),
          accessToken |-> Token(1)]
Bob == [id |-> 2, username |-> "bob", password |-> hashSync("pw2", "s2"),
        accessToken |-> Token(2)]

\* Documents found in the collection when the server starts: one written with
\* an owner (userId, username) and one without either, as the handler of
\* lines 469-492 writes them.
OwnedThought == [NoThought EXCEPT !.id = 1, !.message = MinLength,
                                  !.username = "alice", !.userId = 1]
LegacyThought == [NoThought EXCEPT !.id = 2, !.message = MinLength]

Init ==
  /\ users = {Alice, Bob}
  /\ thoughts = <<OwnedThought, LegacyThought>>
  /\ req = [s \in Slots |-> Idle]
  /\ resp = NoResp
  /\ created = [u \in Usernames |-> IF u \in {"alice", "bob"} THEN 1 ELSE 0]
  /\ issued = [u \in Usernames |->
                 IF u = "alice" THEN [id |-> 1, password |-> "pw1", accessToken |-> Token(1)]
                 ELSE IF u = "bob"
                 THEN [id |-> 2, password |-> "pw2", accessToken |-> Token(2)]
                 ELSE NotIssued]

Register(s) == RegisterCheck(s) \/ RegisterSave(s)
Random(s) == RandomCount(s) \/ RandomFetch(s)
Create(s) == CreateAuth(s) \/ CreateSave(s)
Delete(s) == DeleteAuth(s) \/ DeleteFind(s) \/ DeleteExec(s)
Update(s) == UpdateAuth(s) \/ UpdateFind(s) \/ UpdateSave(s)
Like(s) == LikeAuth(s) \/ LikeFind(s) \/ LikeSave(s)

Next ==
  \E s \in Slots :
    \/ Register(s) \/ Login(s) \/ Secrets(s) \/ ListLikes(s) \/ Random(s)
    \/ Create(s) \/ Delete(s) \/ Update(s) \/ Like(s)

Spec == Init /\ [][Next]_vars

NextAccounts == \E s \in Slots : Register(s) \/ Login(s)
SpecAccounts == Init /\ [][NextAccounts]_vars

NextAccess ==
  \E s \in Slots : Secrets(s) \/ ListLikes(s) \/ Create(s) \/ Delete(s) \/ Update(s)
SpecAccess == Init /\ [][NextAccess]_vars

\* The like route alone.
NextLikes == \E s \in Slots : Like(s)
SpecLikes == Init /\ [][NextLikes]_vars

NextRandom == \E s \in Slots : Random(s) \/ Delete(s)
SpecRandom == Init /\ [][NextRandom]_vars
\* The handlers of src/server.js with store operations that may reject.
Fails(s) == FailsFirst(s) \/ FailsLater(s) \/ SecretsFails(s)
NextFault ==
  \E s \in Slots :
    \/ Login(s) \/ Secrets(s) \/ ListLikes(s) \/ Random(s)
    \/ Create(s) \/ Delete(s) \/ Update(s) \/ Fails(s)
SpecFault == Init /\ [][NextFault]_vars

\* ------------------------------------------------------------------ claims

ValidLength(message) == message \in MinLength .. MaxLength
FindSteps == {"delete_find", "update_find"}
PastOwnerCheck == {"delete_exec", "update_save"}

\* C1: a PUT or DELETE on a thought that records an owner, sent with the
\* token of another user, does not get past the ownership check (it is
\* answered 403 and the thought stays as it is).
C1_NonOwnerForbidden ==
  [][\A s \in Slots :
       (req[s].pc \in FindSteps /\ req'[s].pc \in PastOwnerCheck)
         => req'[s].snap.userId \in {0, req[s].user}]_vars

\* C2, as stated: every protected route, GET /thoughts/likes among them,
\* answers 401 to a request whose Authorization value matches no user, and
\* writes nothing.
ProtectedRoutes == {"create", "delete", "update", "like", "likes", "secrets"}
GuardedRoutes == {"create", "delete", "update", "secrets"}
C3_CreateSucceeds ==
  (resp.route = "create" /\ resp.known /\ ValidLength(resp.msg))
    => /\ resp.status = 201 /\ resp.wrote
       /\ resp.n = 0 /\ resp.owner = resp.user
       /\ HasThought(resp.body)

\* C4: a create or update of an authenticated caller whose message is absent
\* or shorter than 5 or longer than 140 is answered 400 and writes nothing,
\* so every stored message has 5 to 140 characters.
C4_InvalidMessageRejected ==
  /\ ( /\ resp.known /\ ~ValidLength(resp.msg)
       /\ \/ resp.route = "create"
          \/ resp.route = "update" /\ resp.body # 0 /\ resp.status # 403 )
       => (resp.status = 400 /\ ~resp.wrote)
  /\ \A i \in DOMAIN thoughts : ValidLength(thoughts[i].message)

C6_LoginReturnsIssuedToken ==
  /\ \A x \in users : issued[x.username].accessToken = x.accessToken
  /\ (resp.route = "login" /\ resp.uname # NoStr /\ resp.pw # NoStr
        /\ issued[resp.uname] # NotIssued) =>
       IF resp.pw = issued[resp.uname].password
       THEN resp.status = 200 /\ resp.token = issued[resp.uname].accessToken
       ELSE resp.status = 401 /\ resp.token = NoToken

\* A user registered while the server runs logged in and got the issued token.
C6_Witness ==
  /\ resp.route = "login" /\ resp.status = 200
  /\ resp.uname \in {"ada", "eve"}
  /\ resp.token = issued[resp.uname].accessToken

\* C7: for every stored thought, hearts is the number of users in likedBy.
C7_HeartsCountLikers ==
  \A i \in DOMAIN thoughts :
    thoughts[i].hearts = Cardinality(BagToSet(thoughts[i].likedBy))

\* C8: a like by a caller who is in likedBy of the thought is answered 200
\* and changes nothing; a like that is saved adds the caller to likedBy
\* once and adds exactly 1 to hearts of that thought and changes no other;
\* a caller stays in likedBy as long as the thought is stored.
Addressed(s) == IF req'[s].pc = "like_save" THEN req'[s].tid ELSE resp'.body
C9_StoreFailureAnswered ==
  /\ \A s \in Slots : req[s].pc # "unhandled"
  /\ resp.failed => resp.status \in {400, 500}

\* C10: GET /thoughts/random is answered 404 only when the count was 0, and
\* otherwise 200 with a thought of the store, never null.
C10_RandomNeverNull ==
  resp.route = "random" =>
    \/ resp.status = 404 /\ resp.n = 0
    \/ resp.status = 200 /\ resp.body # 0 /\ HasThought(resp.body)
=============================================================================
